---- MODULE Spec2Model ----
(***************************************************************************)
(* Model of customgpt.py: a Streamlit chat client that keeps the exchange  *)
(* log in st.session_state.messages and in the JSON file chat_history.json.*)
(* Every browser session runs the script top to bottom on each interaction;*)
(* the position of a running script is pc[s].  save_chat_history is        *)
(* modelled at the grain of open(..., 'w') (truncate) and the chunk writes *)
(* of json.dump, because the file is shared by all sessions and survives a *)
(* crash of the server process.                                            *)
(***************************************************************************)
EXTENDS Integers, Sequences, FiniteSets, TLC

VARIABLES
    messages,          \* st.session_state.messages, per session
    history_loaded,    \* st.session_state.history_loaded
    authenticated,     \* st.session_state.authenticated
    openai_key,        \* st.session_state.openai_key
    show_full_history, \* st.session_state.show_full_history
    file,              \* HISTORY_FILE on disk: [exists, data]
    backup,            \* the file named by backup_file of the running Clear History
    pc,                \* position of the session's script run
    ret,               \* where the run continues after save_chat_history
    wbuf,              \* chunks json.dump produces for the save in progress
    uploads,           \* number of uploaded files the Analyze loop has still to visit
    request,           \* message list of the model call of the current run
    op,                \* the running operation: kind, History before it, inputs, files rejected,
                       \* the loop variable uploaded_file, model calls made
    snap,              \* HISTORY_FILE as it was when the save in progress opened it
    saved_ok,          \* whether the last save_chat_history call of the run completed
    stored             \* what load_chat_history returned at the end of the last completed run

vars == <<messages, history_loaded, authenticated, openai_key, show_full_history,
          file, backup, pc, ret, wbuf, uploads, request, op, snap,
          saved_ok, stored>>

----------------------------------------------------------------------------
(* Bounds *)
MaxLen == 3
MaxFiles == 2
MaxStored == 12

Sessions == {"s1", "s2"}
Prompts == {"p1", "p2"}
Replies == {"r1"}

(* Program constants *)
MAX_FILE_SIZE == 5 * 1024 * 1024
ALLOWED_TYPES == {"txt", "pdf", "csv", "json", "py", "md", "png", "jpg", "jpeg"}
SYSTEM_PROMPT == <<"You are a helpful assistant with perfect memory of the conversation history.">>
APP_PASSWORD == "secret"
None == <<>>

----------------------------------------------------------------------------
(* Messages.  A content is a sequence of string pieces: an f-string is the *)
(* sequence of its parts.  The timestamp of a message is only displayed    *)
(* (no branch reads it) and is left out.                                   *)
Msg(role, content) == [role |-> role, content |-> content]

IsPrefix(a, b) == Len(a) <= Len(b) /\ SubSeq(b, 1, Len(a)) = a

(* json.dump(history, f, indent=2): the chunks written to the file, one per *)
(* f.write.  An empty list is the single chunk "[]".                        *)
Tok(t, m) == [t |-> t, role |-> m.role, content |-> m.content]
NoMsg == Msg("", <<>>)
Dump_LastOnly(history) ==
    IF history = <<>> THEN <<Tok("[]", NoMsg)>>
    ELSE <<Tok("[", NoMsg), Tok("obj", history[Len(history)]), Tok("]", NoMsg)>>
Dump(history) ==
    IF history = <<>> THEN <<Tok("[]", NoMsg)>>
    ELSE <<Tok("[", NoMsg)>> \o [i \in 1..Len(history) |-> Tok("obj", history[i])]
         \o <<Tok("]", NoMsg)>>

(* json.load: the text parses iff it is "[]" or "[" objects "]". *)
ParseOk(data) ==
    \/ data = <<Tok("[]", NoMsg)>>
    \/ /\ Len(data) >= 2
       /\ data[1].t = "["
       /\ data[Len(data)].t = "]"
       /\ \A i \in 2..(Len(data) - 1) : data[i].t = "obj"
Parse_OffByOne(data) ==
    IF Len(data) <= 2 THEN <<>>
    ELSE [i \in 1..(Len(data) - 2) |-> Msg(data[i + 2].role, data[i + 2].content)]
Parse(data) ==
    IF Len(data) <= 2 THEN <<>>
    ELSE [i \in 1..(Len(data) - 2) |-> Msg(data[i + 1].role, data[i + 1].content)]

Absent == [exists |-> FALSE, data |-> <<>>]

(* load_chat_history: [] when the file does not exist, and also when       *)
(* reading it raises (the except branch reports and returns []).           *)
load_chat_history(f) ==
    IF f.exists
    THEN IF ParseOk(f.data) THEN Parse(f.data) ELSE <<>>
    ELSE <<>>

(* Writing chunks from offset 0 of a file opened with 'w': what another    *)
(* writer put beyond them after the truncation stays.                      *)
WriteAt(data, chunks) ==
    chunks \o SubSeq(data, Len(chunks) + 1, Len(data))

----------------------------------------------------------------------------
(* Uploaded files.  ext is name.split('.')[-1].lower(); valid says whether *)
(* the bytes decode in the format the extension announces.                 *)
UploadedFile(name, ext, type, size, valid) ==
    [name |-> name, ext |-> ext, type |-> type, size |-> size, valid |-> valid]

Uploadable ==
    { UploadedFile("notes.txt", "txt", "text/plain", 1, TRUE),
      UploadedFile("big.txt", "txt", "text/plain", MAX_FILE_SIZE + 1, TRUE),
      UploadedFile("data.csv", "csv", "text/csv", 1, FALSE),
      UploadedFile("photo.png", "png", "image/png", 1, TRUE),
      UploadedFile("huge.png", "png", "image/png", MAX_FILE_SIZE + 1, TRUE),
      UploadedFile("bad.png", "png", "image/png", 1, FALSE),
      UploadedFile("scan.png", "png", "application/octet-stream", 1, FALSE) }

IsImageType(type) == type \in {"image/png", "image/jpeg"}

(* process_image: the base64 JPEG, or None when PIL raises. *)
process_image(f) ==
    IF f.valid THEN <<"base64", f.name>> ELSE None

(* process_file: the pair (content, error). *)
Pair(content, error) == [content |-> content, error |-> error]
process_file(f) ==
    IF f.ext \notin ALLOWED_TYPES
    THEN Pair(None, <<"File type .", f.ext, " is not supported">>)
    ELSE IF f.size > MAX_FILE_SIZE
    THEN Pair(None, <<"File is too large (max 5MB)">>)
    ELSE IF f.ext \in {"png", "jpg", "jpeg"}
    THEN Pair(process_image(f), None)
    ELSE IF f.ext \in {"txt", "py", "md"}
    THEN IF f.valid THEN Pair(<<"text of ", f.name>>, None)
         ELSE Pair(None, <<"Error processing file: ", "decode">>)
    ELSE IF f.ext = "pdf"
    THEN IF f.valid THEN Pair(<<"pages of ", f.name>>, None)
         ELSE Pair(None, <<"Error processing PDF: ", "parse">>)
    ELSE IF f.ext = "csv"
    THEN IF f.valid THEN Pair(<<"table of ", f.name>>, None)
         ELSE Pair(None, <<"Error processing CSV: ", "parse">>)
    ELSE IF f.ext = "json"
    THEN IF f.valid THEN Pair(<<"json of ", f.name>>, None)
         ELSE Pair(None, <<"Error processing JSON: ", "parse">>)
    ELSE Pair(None, <<"Unsupported file type">>)

(* f-string rendering of a content that may be None *)
Str(content) == IF content = None THEN <<"None">> ELSE content

(* chat_with_openai: the message list handed to the completion call *)
chat_with_openai_messages(message, history) ==
    <<Msg("system", SYSTEM_PROMPT)>>
    \o [i \in 1..Len(history) |-> Msg(history[i].role, history[i].content)]
    \o <<Msg("user", message)>>

(* chat_with_openai_vision: the message list handed to the completion call *)
chat_with_openai_vision_messages(prompt, image_base64, history) ==
    <<Msg("user", <<"text">> \o prompt \o <<"image_url">> \o image_base64)>>

(* messages_to_show *)
messages_to_show(msgs, full) ==
    IF full THEN msgs
    ELSE IF msgs # <<>>
    THEN SubSeq(msgs, (IF Len(msgs) > 10 THEN Len(msgs) - 9 ELSE 1), Len(msgs))
    ELSE <<>>

----------------------------------------------------------------------------
NoFile == UploadedFile("", "", "", 0, FALSE)
NoOp == [kind |-> "none", before |-> <<>>, prompt |-> <<>>, reply |-> <<>>, rejected |-> 0,
         uploaded_file |-> NoFile, calls |-> 0]

Init ==
    /\ messages = [s \in Sessions |-> <<>>]
    /\ history_loaded = [s \in Sessions |-> FALSE]
    /\ authenticated = [s \in Sessions |-> FALSE]
    /\ openai_key = [s \in Sessions |-> None]
    /\ show_full_history = [s \in Sessions |-> TRUE]
    /\ file = Absent
    /\ backup = Absent
    /\ pc = [s \in Sessions |-> "start"]
    /\ ret = [s \in Sessions |-> "idle"]
    /\ wbuf = [s \in Sessions |-> <<>>]
    /\ uploads = [s \in Sessions |-> 0]
    /\ request = [s \in Sessions |-> <<>>]
    /\ op = [s \in Sessions |-> NoOp]
    /\ snap = [s \in Sessions |-> Absent]
    /\ saved_ok = [s \in Sessions |-> TRUE]
    /\ stored = <<>>

(* The main interface is reached only past both gates of main(). *)
Ready_NoGate(s) ==
    /\ pc[s] = "idle"
    /\ history_loaded[s]
Ready(s) ==
    /\ pc[s] = "idle"
    /\ history_loaded[s]
    /\ authenticated[s]
    /\ openai_key[s] # None

(* A run that reaches the end of the script (or st.experimental_rerun). *)
EndRun(s) ==
    /\ pc' = [pc EXCEPT ![s] = "idle"]
    /\ request' = [request EXCEPT ![s] = <<>>]
    /\ op' = [op EXCEPT ![s] = NoOp]
    /\ saved_ok' = [saved_ok EXCEPT ![s] = TRUE]
    /\ backup' = Absent
    /\ stored' = load_chat_history(file)

(* Entering save_chat_history(history); the run continues at r. *)
CallSave_Skip(s, history, r) ==
    /\ pc' = [pc EXCEPT ![s] = r]
    /\ UNCHANGED <<ret, wbuf>>
CallSave(s, history, r) ==
    /\ pc' = [pc EXCEPT ![s] = "save_open"]
    /\ ret' = [ret EXCEPT ![s] = r]
    /\ wbuf' = [wbuf EXCEPT ![s] = Dump(history)]

(* First run of a session: load the history, show the login form. *)
FirstRun(s) ==
    /\ pc[s] \in {"start", "crashed"}
    /\ ~history_loaded[s]
    /\ messages' = [messages EXCEPT ![s] = load_chat_history(file)]
    /\ history_loaded' = [history_loaded EXCEPT ![s] = TRUE]
    /\ EndRun(s)
    /\ UNCHANGED <<authenticated, openai_key, show_full_history, file, ret,
                   wbuf, uploads, snap>>

(* login_form submitted *)
Login(s, password) ==
    /\ pc[s] = "idle"
    /\ history_loaded[s]
    /\ ~authenticated[s]
    /\ authenticated' = [authenticated EXCEPT ![s] = (password = APP_PASSWORD)]
    /\ UNCHANGED <<messages, history_loaded, openai_key, show_full_history, file, backup,
                   pc, ret, wbuf, uploads, request, op, snap, saved_ok, stored>>

(* openai_auth_interface: the key is kept only when validate_api_key passes *)
validate_api_key(api_key) == api_key = <<"sk-valid">>
EnterKey(s, api_key) ==
    /\ pc[s] = "idle"
    /\ history_loaded[s]
    /\ authenticated[s]
    /\ openai_key[s] = None
    /\ openai_key' = [openai_key EXCEPT ![s] =
                        IF validate_api_key(api_key) THEN api_key ELSE None]
    /\ UNCHANGED <<messages, history_loaded, authenticated, show_full_history, file, backup,
                   pc, ret, wbuf, uploads, request, op, snap, saved_ok, stored>>

----------------------------------------------------------------------------
(* save_chat_history, step by step.  json.dump writes into the file       *)
(* object's buffer; the bytes reach the file when the buffer is flushed,   *)
(* at the latest when the with block closes the file.                      *)

(* open(HISTORY_FILE, 'w') truncates the file *)
SaveOpen(s) ==
    /\ pc[s] = "save_open"
    /\ snap' = [snap EXCEPT ![s] = file]
    /\ file' = [exists |-> TRUE, data |-> <<>>]
    /\ pc' = [pc EXCEPT ![s] = "save_write"]
    /\ UNCHANGED <<messages, history_loaded, authenticated, openai_key, show_full_history,
                   backup, ret, wbuf, uploads, request, op, saved_ok, stored>>

(* json.dump returns and the with block is left: everything is written *)
SaveClose(s) ==
    /\ pc[s] = "save_write"
    /\ file' = [exists |-> TRUE, data |-> WriteAt(file.data, wbuf[s])]
    /\ pc' = [pc EXCEPT ![s] = ret[s]]
    /\ saved_ok' = [saved_ok EXCEPT ![s] = TRUE]
    /\ snap' = [snap EXCEPT ![s] = Absent]
    /\ wbuf' = [wbuf EXCEPT ![s] = <<>>]
    /\ UNCHANGED <<messages, history_loaded, authenticated, openai_key, show_full_history,
                   backup, ret, uploads, request, op, stored>>

(* open raises (the file is untouched), or the write raises (the file     *)
(* stays as open left it); the except branch reports and returns           *)
SaveFail(s) ==
    /\ pc[s] \in {"save_open", "save_write"}
    /\ UNCHANGED file
    /\ pc' = [pc EXCEPT ![s] = ret[s]]
    /\ saved_ok' = [saved_ok EXCEPT ![s] = FALSE]
    /\ snap' = [snap EXCEPT ![s] = Absent]
    /\ wbuf' = [wbuf EXCEPT ![s] = <<>>]
    /\ UNCHANGED <<messages, history_loaded, authenticated, openai_key, show_full_history,
                   backup, ret, uploads, request, op, stored>>

----------------------------------------------------------------------------
(* new_message and assistant_message of the chat turn *)
user_message(prompt) == Msg("user", prompt)
assistant_message_AsSystem(response) == Msg("system", response)
assistant_message(response) == Msg("assistant", response)

(* "if error: st.error(error) else: ... messages.append(assistant_message)" *)
AfterReply_Prepend(history, outcome) ==
    IF outcome = <<"error">> THEN history
    ELSE <<assistant_message(outcome)>> \o history
AfterReply_Replace(history, outcome) ==
    IF outcome = <<"error">> THEN history
    ELSE <<assistant_message(outcome)>>
AfterReply_Fabricate(history, outcome) ==
    Append(history, assistant_message(IF outcome = <<"error">> THEN None ELSE outcome))
AfterReply(history, outcome) ==
    IF outcome = <<"error">> THEN history
    ELSE Append(history, assistant_message(outcome))

(* Chat turn: "if prompt:" *)
Submit(s, prompt) ==
    /\ Ready(s)
    /\ Len(messages[s]) + 2 <= MaxLen
    /\ messages' = [messages EXCEPT ![s] = Append(messages[s], user_message(prompt))]
    /\ op' = [op EXCEPT ![s] = [NoOp EXCEPT !.kind = "turn", !.before = messages[s],
                                           !.prompt = prompt]]
    /\ CallSave(s, messages'[s], "invoke")
    /\ UNCHANGED <<history_loaded, authenticated, openai_key, show_full_history,
                   file, backup, uploads, request, snap, saved_ok, stored>>

(* chat_with_openai(prompt, st.session_state.messages) and the branch on error *)
Invoke(s, outcome) ==
    /\ pc[s] = "invoke"
    /\ request' = [request EXCEPT ![s] = chat_with_openai_messages(op[s].prompt, messages[s])]
    /\ messages' = [messages EXCEPT ![s] = AfterReply(messages[s], outcome)]
    /\ IF outcome = <<"error">>
       THEN /\ op' = [op EXCEPT ![s].kind = "turn_err", ![s].calls = op[s].calls + 1]
            /\ pc' = [pc EXCEPT ![s] = "rerun"]
            /\ UNCHANGED <<ret, wbuf>>
       ELSE /\ op' = [op EXCEPT ![s].kind = "turn_ok", ![s].reply = outcome,
                                ![s].calls = op[s].calls + 1]
            /\ CallSave(s, messages'[s], "rerun")
    /\ UNCHANGED <<history_loaded, authenticated, openai_key, show_full_history,
                   file, backup, uploads, snap, saved_ok, stored>>

(* st.experimental_rerun(), or the end of the script *)
Rerun(s) ==
    /\ pc[s] \in {"rerun", "render"}
    /\ EndRun(s)
    /\ UNCHANGED <<messages, history_loaded, authenticated, openai_key, show_full_history,
                   file, ret, wbuf, uploads, snap>>

----------------------------------------------------------------------------
(* "Analyze Files" pressed with a non-empty upload list *)
(* The list is uploaded_files; each of its files is drawn when the loop    *)
(* reaches it.                                                             *)
AnalyzeFiles(s, count) ==
    /\ Ready(s)
    /\ count >= 1
    /\ Len(messages[s]) + count <= MaxLen
    /\ uploads' = [uploads EXCEPT ![s] = count]
    /\ op' = [op EXCEPT ![s] = [NoOp EXCEPT !.kind = "analyze", !.before = messages[s]]]
    /\ pc' = [pc EXCEPT ![s] = "loop"]
    /\ UNCHANGED <<messages, history_loaded, authenticated, openai_key, show_full_history,
                   file, backup, ret, wbuf, request, snap, saved_ok, stored>>

(* one iteration of "for uploaded_file in uploaded_files" *)
Visit(s, f) == [op EXCEPT ![s].uploaded_file = f]
Rejected(s, f) == [op EXCEPT ![s].uploaded_file = f, ![s].rejected = op[s].rejected + 1]
Called(s, f) == [op EXCEPT ![s].uploaded_file = f, ![s].calls = op[s].calls + 1]
AnalyzeOne(s, uploaded_file, outcome) ==
    /\ pc[s] = "loop"
    /\ uploads[s] > 0
    /\ uploads' = [uploads EXCEPT ![s] = uploads[s] - 1]
    /\ LET img_base64 == process_image(uploaded_file)
           result == process_file(uploaded_file)
       IN  IF IsImageType(uploaded_file.type)
           THEN IF img_base64 # None
                THEN /\ request' = [request EXCEPT ![s] =
                            chat_with_openai_vision_messages(
                                <<"Please analyze this image: ", uploaded_file.name>>,
                                img_base64, messages[s])]
                     /\ op' = Called(s, uploaded_file)
                     /\ IF outcome = <<"error">>
                        THEN UNCHANGED <<messages, pc, ret, wbuf>>
                        ELSE /\ messages' = [messages EXCEPT ![s] =
                                    Append(messages[s], Msg("assistant", outcome))]
                             /\ CallSave(s, messages'[s], "loop")
                ELSE /\ outcome = <<"error">>
                     /\ op' = Rejected(s, uploaded_file)
                     /\ UNCHANGED <<messages, pc, ret, wbuf, request>>
           ELSE /\ outcome = <<"error">>
                /\ UNCHANGED request
                /\ IF result.error # None
                   THEN /\ op' = Rejected(s, uploaded_file)
                        /\ UNCHANGED <<messages, pc, ret, wbuf>>
                   ELSE /\ messages' = [messages EXCEPT ![s] =
                               Append(messages[s],
                                      Msg("user", <<"Analyzing file: ", uploaded_file.name, "\n\n">>
                                                  \o Str(result.content)))]
                        /\ CallSave(s, messages'[s], "loop")
                        /\ op' = Visit(s, uploaded_file)
    /\ UNCHANGED <<history_loaded, authenticated, openai_key, show_full_history,
                   file, backup, snap, saved_ok, stored>>

(* the loop is exhausted; the run goes on to render the page *)
AnalyzeDone(s) ==
    /\ pc[s] = "loop"
    /\ uploads[s] = 0
    /\ EndRun(s)
    /\ UNCHANGED <<messages, history_loaded, authenticated, openai_key, show_full_history,
                   file, ret, wbuf, uploads, snap>>

----------------------------------------------------------------------------
(* "Clear History" pressed *)
ClearHistory(s) ==
    /\ Ready(s)
    /\ op' = [op EXCEPT ![s] = [NoOp EXCEPT !.kind = "clear", !.before = messages[s]]]
    /\ IF messages[s] # <<>>
       THEN CallSave(s, messages[s], "rename")
       ELSE /\ pc' = [pc EXCEPT ![s] = "render"]
            /\ UNCHANGED <<ret, wbuf>>
    /\ UNCHANGED <<messages, history_loaded, authenticated, openai_key, show_full_history,
                   file, backup, uploads, request, snap, saved_ok, stored>>

(* os.rename(HISTORY_FILE, backup_file), then messages = [] and save([]);  *)
(* a missing HISTORY_FILE raises out of the run                            *)
RenameToBackup(s) ==
    /\ pc[s] = "rename"
    /\ IF file.exists
       THEN /\ backup' = file
            /\ file' = Absent
            /\ messages' = [messages EXCEPT ![s] = <<>>]
            /\ CallSave(s, <<>>, "rerun")
            /\ UNCHANGED op
       ELSE /\ op' = [op EXCEPT ![s].kind = "clear_raised"]
            /\ pc' = [pc EXCEPT ![s] = "render"]
            /\ UNCHANGED <<backup, file, messages, ret, wbuf>>
    /\ UNCHANGED <<history_loaded, authenticated, openai_key, show_full_history,
                   uploads, request, snap, saved_ok, stored>>

(* "Clear Display" pressed *)
ClearDisplay_Trim(s) ==
    /\ Ready(s)
    /\ show_full_history' = [show_full_history EXCEPT ![s] = FALSE]
    /\ messages' = [messages EXCEPT ![s] = messages_to_show(messages[s], FALSE)]
    /\ UNCHANGED <<history_loaded, authenticated, openai_key, file, backup,
                   pc, ret, wbuf, uploads, request, op, snap, saved_ok, stored>>
ClearDisplay(s) ==
    /\ Ready(s)
    /\ show_full_history' = [show_full_history EXCEPT ![s] = FALSE]
    /\ UNCHANGED <<messages, history_loaded, authenticated, openai_key, file, backup,
                   pc, ret, wbuf, uploads, request, op, snap, saved_ok, stored>>

(* the "Show Full History" checkbox is toggled *)
ShowFullHistory(s) ==
    /\ Ready(s)
    /\ show_full_history' = [show_full_history EXCEPT ![s] = ~show_full_history[s]]
    /\ UNCHANGED <<messages, history_loaded, authenticated, openai_key, file, backup,
                   pc, ret, wbuf, uploads, request, op, snap, saved_ok, stored>>

(* "Logout" pressed *)
Logout(s) ==
    /\ Ready(s)
    /\ authenticated' = [authenticated EXCEPT ![s] = FALSE]
    /\ openai_key' = [openai_key EXCEPT ![s] = None]
    /\ UNCHANGED <<messages, history_loaded, show_full_history, file, backup,
                   pc, ret, wbuf, uploads, request, op, snap, saved_ok, stored>>

(* The server process dies: session state is gone, the files stay. *)
Crash(s) ==
    /\ pc[s] \notin {"start", "crashed"}
    /\ pc' = [pc EXCEPT ![s] = "crashed"]
    /\ messages' = [messages EXCEPT ![s] = <<>>]
    /\ history_loaded' = [history_loaded EXCEPT ![s] = FALSE]
    /\ authenticated' = [authenticated EXCEPT ![s] = FALSE]
    /\ openai_key' = [openai_key EXCEPT ![s] = None]
    /\ show_full_history' = [show_full_history EXCEPT ![s] = TRUE]
    /\ ret' = [ret EXCEPT ![s] = "idle"]
    /\ wbuf' = [wbuf EXCEPT ![s] = <<>>]
    /\ uploads' = [uploads EXCEPT ![s] = 0]
    /\ request' = [request EXCEPT ![s] = <<>>]
    /\ snap' = [snap EXCEPT ![s] = Absent]
    /\ saved_ok' = [saved_ok EXCEPT ![s] = TRUE]
    /\ UNCHANGED <<file, backup, op, stored>>

----------------------------------------------------------------------------
Outcomes == {<<"error">>} \cup {<<r>> : r \in Replies}
Keys == {<<"sk-valid">>, <<"sk-bad">>}
Passwords == {APP_PASSWORD, "guess"}
Single == {"s1"}

Next ==
    \/ \E s \in Single : FirstRun(s)
    \/ \E s \in Single, password \in Passwords : Login(s, password)
    \/ \E s \in Single, api_key \in Keys : EnterKey(s, api_key)
    \/ \E s \in Single, p \in Prompts : Submit(s, <<p>>)
    \/ \E s \in Single, outcome \in Outcomes : Invoke(s, outcome)
    \/ \E s \in Single : Rerun(s)
    \/ \E s \in Single : SaveOpen(s)
    \/ \E s \in Single : SaveClose(s)
    \/ \E s \in Single : SaveFail(s)
    \/ \E s \in Single, count \in 1..MaxFiles : AnalyzeFiles(s, count)
    \/ \E s \in Single, f \in Uploadable, outcome \in Outcomes : AnalyzeOne(s, f, outcome)
    \/ \E s \in Single : AnalyzeDone(s)
    \/ \E s \in Single : ClearHistory(s)
    \/ \E s \in Single : RenameToBackup(s)
    \/ \E s \in Single : ClearDisplay(s)
    \/ \E s \in Single : ShowFullHistory(s)
    \/ \E s \in Single : Logout(s)
    \/ \E s \in Single : Crash(s)

Spec == Init /\ [][Next]_vars

(* Two browser sessions of the same server share HISTORY_FILE. *)
NextTwo ==
    \/ \E s \in Sessions : FirstRun(s)
    \/ \E s \in Sessions : Login(s, APP_PASSWORD)
    \/ \E s \in Sessions : EnterKey(s, <<"sk-valid">>)
    \/ \E s \in Sessions, p \in Prompts : Submit(s, <<p>>)
    \/ \E s \in Sessions, outcome \in Outcomes : Invoke(s, outcome)
    \/ \E s \in Sessions : Rerun(s)
    \/ \E s \in Sessions : SaveOpen(s)
    \/ \E s \in Sessions : SaveClose(s)

SpecTwo == Init /\ [][NextTwo]_vars

(* One session in which no save raises and the server stays up. *)
NextSaved ==
    \/ \E s \in Single : FirstRun(s)
    \/ \E s \in Single, password \in Passwords : Login(s, password)
    \/ \E s \in Single, api_key \in Keys : EnterKey(s, api_key)
    \/ \E s \in Single, p \in Prompts : Submit(s, <<p>>)
    \/ \E s \in Single, outcome \in Outcomes : Invoke(s, outcome)
    \/ \E s \in Single : Rerun(s)
    \/ \E s \in Single : SaveOpen(s)
    \/ \E s \in Single : SaveClose(s)
    \/ \E s \in Single, count \in 1..MaxFiles : AnalyzeFiles(s, count)
    \/ \E s \in Single, f \in Uploadable, outcome \in Outcomes : AnalyzeOne(s, f, outcome)
    \/ \E s \in Single : AnalyzeDone(s)
    \/ \E s \in Single : ClearHistory(s)
    \/ \E s \in Single : RenameToBackup(s)
    \/ \E s \in Single : ClearDisplay(s)
    \/ \E s \in Single : ShowFullHistory(s)
    \/ \E s \in Single : Logout(s)

SpecSaved == Init /\ [][NextSaved]_vars

----------------------------------------------------------------------------
(* save_chat_history(st.session_state.messages) followed by                *)
(* load_chat_history(), for any list of message dicts.                     *)
AnyRoles == {"system", "user", "assistant"}
AnyContents == {None, <<"p1">>, <<"Analyzing file: ", "notes.txt", "\n\n", "text">>}
AnyMessage == {Msg(role, content) : role \in AnyRoles, content \in AnyContents}
AnyHistory == UNION {[1..n -> AnyMessage] : n \in 0..MaxLen}

SaveHistory(s) ==
    /\ Ready(s)
    /\ op' = [op EXCEPT ![s] = [NoOp EXCEPT !.kind = "save", !.before = messages[s]]]
    /\ CallSave(s, messages[s], "render")
    /\ UNCHANGED <<messages, history_loaded, authenticated, openai_key, show_full_history,
                   file, backup, uploads, request, snap, saved_ok, stored>>

InitRoundTrip ==
    /\ \E history \in AnyHistory :
           messages = [s \in Sessions |-> IF s \in Single THEN history ELSE <<>>]
    /\ history_loaded = [s \in Sessions |-> s \in Single]
    /\ authenticated = [s \in Sessions |-> s \in Single]
    /\ openai_key = [s \in Sessions |-> IF s \in Single THEN <<"sk-valid">> ELSE None]
    /\ show_full_history = [s \in Sessions |-> TRUE]
    /\ file = Absent
    /\ backup = Absent
    /\ pc = [s \in Sessions |-> IF s \in Single THEN "idle" ELSE "start"]
    /\ ret = [s \in Sessions |-> "idle"]
    /\ wbuf = [s \in Sessions |-> <<>>]
    /\ uploads = [s \in Sessions |-> 0]
    /\ request = [s \in Sessions |-> <<>>]
    /\ op = [s \in Sessions |-> NoOp]
    /\ snap = [s \in Sessions |-> Absent]
    /\ saved_ok = [s \in Sessions |-> TRUE]
    /\ stored = <<>>

NextRoundTrip ==
    \/ \E s \in Single : SaveHistory(s)
    \/ \E s \in Single : SaveOpen(s)
    \/ \E s \in Single : SaveClose(s)
    \/ \E s \in Single : Rerun(s)

SpecRoundTrip == InitRoundTrip /\ [][NextRoundTrip]_vars

----------------------------------------------------------------------------
(* A session that starts on a HISTORY_FILE left by earlier sessions: user  *)
(* and assistant messages in turn, as many as MaxStored, more than the 10  *)
(* the short view shows.                                                   *)
StoredHistory(n, prompts) ==
    [i \in 1..n |-> IF i % 2 = 1 THEN user_message(<<prompts[i]>>)
                                 ELSE assistant_message(<<"r1">>)]
StoredHistories ==
    UNION {{StoredHistory(n, prompts) : prompts \in [1..n -> Prompts]} : n \in 0..MaxStored}

InitDisplay ==
    /\ messages = [s \in Sessions |-> <<>>]
    /\ history_loaded = [s \in Sessions |-> FALSE]
    /\ authenticated = [s \in Sessions |-> FALSE]
    /\ openai_key = [s \in Sessions |-> None]
    /\ show_full_history = [s \in Sessions |-> TRUE]
    /\ \E history \in StoredHistories : file = [exists |-> TRUE, data |-> Dump(history)]
    /\ backup = Absent
    /\ pc = [s \in Sessions |-> "start"]
    /\ ret = [s \in Sessions |-> "idle"]
    /\ wbuf = [s \in Sessions |-> <<>>]
    /\ uploads = [s \in Sessions |-> 0]
    /\ request = [s \in Sessions |-> <<>>]
    /\ op = [s \in Sessions |-> NoOp]
    /\ snap = [s \in Sessions |-> Absent]
    /\ saved_ok = [s \in Sessions |-> TRUE]
    /\ stored = load_chat_history(file)

NextDisplay ==
    \/ \E s \in Single : FirstRun(s)
    \/ \E s \in Single, password \in Passwords : Login(s, password)
    \/ \E s \in Single, api_key \in Keys : EnterKey(s, api_key)
    \/ \E s \in Single : ClearDisplay(s)
    \/ \E s \in Single : ShowFullHistory(s)
    \/ \E s \in Single : Logout(s)
    \/ \E s \in Single : Crash(s)

SpecDisplay == InitDisplay /\ [][NextDisplay]_vars

----------------------------------------------------------------------------
(* Properties *)

Persisted == load_chat_history(file)
TurnEnded(s) == pc[s] = "rerun" /\ op[s].kind \in {"turn_ok", "turn_err"} /\ saved_ok[s]

(* C1: once the model call of a chat turn has succeeded, History is the    *)
(* History before the turn followed by the user message carrying the       *)
(* prompt and the assistant message carrying the reply: two more entries,  *)
(* in that order, the earlier ones untouched.                              *)
C1_SuccessAppendsTwo ==
    \A s \in Sessions :
        op[s].kind = "turn_ok" /\ pc[s] # "crashed" =>
            /\ Len(messages[s]) = Len(op[s].before) + 2
            /\ messages[s] = op[s].before \o <<Msg("user", op[s].prompt),
                                               Msg("assistant", op[s].reply)>>

C1_Witness ==
    \E s \in Sessions :
        /\ pc[s] = "rerun"
        /\ op[s].kind = "turn_ok"
        /\ op[s].before # <<>>

C3_RejectedFileAbortsRun ==
    \A s \in Sessions :
        (pc[s] = "loop" /\ uploads[s] = 0 /\ op[s].rejected > 0 /\ saved_ok[s]) =>
            /\ messages[s] = op[s].before
            /\ Persisted = stored

(* C4: at the end of a chat turn whose saves completed, the message list   *)
(* of the turn's model call is the system                                  *)
(* preamble, the History before the turn, and the pending user message     *)
(* once: |History before| + 2 entries.                                     *)
C4_RequestHasPendingOnce ==
    \A s \in Sessions :
        TurnEnded(s) =>
            /\ Len(request[s]) = Len(op[s].before) + 2
            /\ request[s] = <<Msg("system", SYSTEM_PROMPT)>> \o op[s].before
                            \o <<Msg("user", op[s].prompt)>>

(* C5: in every History, each assistant message directly follows a user    *)
(* message.                                                                *)
C5_AssistantFollowsUser ==
    \A s \in Sessions :
        \A i \in 1..Len(messages[s]) :
            messages[s][i].role = "assistant" =>
                i > 1 /\ messages[s][i - 1].role = "user"

(* C6: after a crash during a chat turn the persisted history still starts *)
(* with everything it held when the last completed run ended.              *)
C6_CrashKeepsCompletedTurns ==
    \A s \in Sessions :
        (pc[s] = "crashed" /\ op[s].kind \in {"turn", "turn_ok", "turn_err"}) =>
            IsPrefix(stored, Persisted)

(* C7: a load that runs while another session is inside save_chat_history  *)
(* returns the history persisted before that save or the history being     *)
(* saved.                                                                  *)
C7_LoadSeesWholeHistory ==
    [][\A r \in Sessions, w \in Sessions :
          (r # w /\ pc[w] = "save_write" /\ ~history_loaded[r] /\ history_loaded'[r]) =>
              messages'[r] \in {load_chat_history(snap[w]), Parse(wbuf[w])}]_vars

(* C8: when every session is between runs, each message a session holds    *)
(* is in the persisted history.                                            *)
C8_NoLostUpdate ==
    (\A s \in Sessions : pc[s] = "idle") =>
        \A s \in Sessions : \A i \in 1..Len(messages[s]) :
            \E j \in 1..Len(Persisted) : Persisted[j] = messages[s][i]

(* C9: load returns the empty sequence only when there is no history file  *)
(* or the file holds the empty list.                                       *)
C9_EmptyOnlyWhenNothingStored ==
    [][\A s \in Sessions :
          (~history_loaded[s] /\ history_loaded'[s] /\ messages'[s] = <<>>) =>
              (~file.exists \/ (ParseOk(file.data) /\ Parse(file.data) = <<>>))]_vars

(* C10: a Clear History run ends with an empty History in memory, an empty *)
(* persisted history and, when the History was not empty, a backup file    *)
(* holding all of it.                                                      *)
C10_ClearEmptiesAndBacksUp ==
    \A s \in Sessions :
        (pc[s] \in {"rerun", "render"} /\ op[s].kind \in {"clear", "clear_raised"}) =>
            /\ messages[s] = <<>>
            /\ Persisted = <<>>
            /\ op[s].before # <<>> =>
                  backup.exists /\ ParseOk(backup.data) /\ Parse(backup.data) = op[s].before

(* C11: a loop iteration over a file larger than MAX_FILE_SIZE adds no     *)
(* message, makes no model call and counts the file as rejected.           *)
C11_OversizeNeverUsed ==
    [][\A s \in Sessions :
          (/\ pc[s] = "loop"
           /\ uploads'[s] = uploads[s] - 1
           /\ op'[s].uploaded_file.size > MAX_FILE_SIZE) =>
              /\ messages'[s] = messages[s]
              /\ op'[s].calls = op[s].calls
              /\ op'[s].rejected = op[s].rejected + 1]_vars

(* C12: every message of the in-memory History, of the history file and of *)
(* the backup file has role user or assistant; the system message exists   *)
(* only in the request.                                                    *)
HistoryRoles == {"user", "assistant"}
C12_NoSystemInHistory ==
    /\ \A s \in Sessions : \A i \in 1..Len(messages[s]) :
           messages[s][i].role \in HistoryRoles
    /\ \A j \in 1..Len(file.data) :
           file.data[j].t = "obj" => file.data[j].role \in HistoryRoles
    /\ \A j \in 1..Len(backup.data) :
           backup.data[j].t = "obj" => backup.data[j].role \in HistoryRoles

C12_Witness ==
    \E s \in Sessions :
        /\ pc[s] = "rerun"
        /\ op[s].kind = "turn_ok"
        /\ request[s][1].role = "system"
        /\ Len(messages[s]) >= 2
        /\ file.exists /\ ParseOk(file.data) /\ Parse(file.data) = messages[s]

(* C13: every step of a running session other than the rename-and-reset of *)
(* Clear History leaves the History it found as a prefix of the History it *)
(* leaves.                                                                 *)
C13_AppendOnly ==
    [][\A s \in Sessions :
          (pc[s] # "rename" /\ pc'[s] # "crashed") =>
              IsPrefix(messages[s], messages'[s])]_vars

C13_Witness ==
    \E s \in Sessions :
        /\ op[s].kind \in {"analyze", "turn_ok"}
        /\ pc[s] \in {"loop", "rerun"}
        /\ op[s].before # <<>>
        /\ Len(messages[s]) > Len(op[s].before)
        /\ ~show_full_history[s]

SaveReturns(s) == pc[s] \in {"save_open", "save_write"} /\ pc'[s] = ret[s]
C15_FailedSaveKeepsMemory ==
    [][\A s \in Single :
          /\ (SaveReturns(s) /\ ~saved_ok'[s]) => messages'[s] = messages[s]
          /\ (SaveReturns(s) /\ saved_ok'[s]) =>
                /\ file'.exists /\ ParseOk(file'.data)
                /\ Parse(file'.data) = messages'[s]]_vars

C15_Witness ==
    \E s \in Single :
        /\ pc[s] = "rerun"
        /\ op[s].kind = "turn_ok"
        /\ saved_ok[s]
        /\ stored # op[s].before
        /\ op[s].before # <<>>
        /\ load_chat_history(file) = messages[s]

(* C16: for every file the loop hands to process_file, exactly one of the  *)
(* returned content and error is None.                                     *)
C16_ExactlyOneOfContentAndError ==
    \A s \in Sessions :
        (/\ op[s].kind = "analyze"
         /\ op[s].uploaded_file # NoFile
         /\ ~IsImageType(op[s].uploaded_file.type)) =>
            LET result == process_file(op[s].uploaded_file)
            IN  (result.content = None) # (result.error = None)

(* C17: in one session whose saves all succeed, whenever an operation      *)
(* (chat turn, file analysis, Clear History) has completed, what           *)
(* HISTORY_FILE holds is the in-memory History: the file loads to exactly  *)
(* st.session_state.messages, so no message is in memory only.             *)
OperationCompleted(s) ==
    /\ history_loaded[s]
    /\ \/ pc[s] \in {"idle", "rerun", "render"}
       \/ pc[s] = "loop" /\ uploads[s] = 0
C17_StoreEqualsMemory ==
    \A s \in Single :
        OperationCompleted(s) =>
            /\ Persisted = messages[s]
            /\ messages[s] # <<>> => file.exists /\ ParseOk(file.data)

C17_Witness ==
    \E s \in Single :
        /\ pc[s] = "loop" /\ uploads[s] = 0
        /\ op[s].kind = "analyze"
        /\ Len(messages[s]) = Len(op[s].before) + MaxFiles
        /\ op[s].before # <<>>
        /\ Persisted = messages[s]

(* C18: a step of a live session that calls the model, changes History,    *)
(* or writes or renames HISTORY_FILE (chat turn, file analysis, Clear      *)
(* History) is taken only with authenticated true and openai_key set, and  *)
(* both still hold after it; Logout leaves both unset, so they have to be  *)
(* set again before the next such step.                                    *)
Gated(s) == authenticated[s] /\ openai_key[s] # None
Acts(s) ==
    /\ history_loaded[s]
    /\ pc'[s] # "crashed"
    /\ \/ messages'[s] # messages[s]
       \/ op'[s].calls > op[s].calls
       \/ request'[s] # <<>> /\ request'[s] # request[s]
       \/ op'[s].kind \in {"turn", "analyze", "clear"} /\ op[s].kind = "none"
       \/ file' # file
C18_GatedByLoginAndKey ==
    [][\A s \in Single :
          /\ Acts(s) => Gated(s) /\ authenticated'[s] /\ openai_key'[s] # None
          /\ (authenticated[s] /\ ~authenticated'[s]) => openai_key'[s] = None]_vars

C18_Witness ==
    \E s \in Single :
        /\ pc[s] = "invoke"
        /\ Gated(s)
        /\ op[s].kind = "turn"
        /\ op[s].before # <<>>
        /\ Len(messages[s]) = Len(op[s].before) + 1

(* C19: every step that calls the model, the call made for an image        *)
(* included, hands it the system preamble first, then the History as it    *)
(* stands at the call, in order, then one pending message.                 *)
Invokes(s) == op'[s].calls > op[s].calls /\ pc'[s] # "crashed"
C19_EveryCallGetsContext ==
    [][\A s \in Single :
          Invokes(s) =>
              /\ Len(request'[s]) = Len(messages[s]) + 2
              /\ request'[s][1] = Msg("system", SYSTEM_PROMPT)
              /\ SubSeq(request'[s], 2, Len(messages[s]) + 1) = messages[s]]_vars

(* C20: a Logout step changes authenticated and openai_key and nothing     *)
(* else; a step that switches the full view off (Clear Display) changes    *)
(* show_full_history and nothing else.  Both leave the in-memory History   *)
(* and HISTORY_FILE as they were.  With the full view off the page shows   *)
(* the last min(10, |History|) messages, in History order.                 *)
LoggedOut(s) == authenticated[s] /\ ~authenticated'[s] /\ pc'[s] # "crashed"
DisplayCleared(s) == show_full_history[s] /\ ~show_full_history'[s]
Shown(s) == messages_to_show(messages[s], show_full_history[s])
C20_LogoutAndClearDisplayFrame ==
    [][\A s \in Single :
          /\ LoggedOut(s) =>
                /\ openai_key'[s] = None
                /\ UNCHANGED <<messages, history_loaded, show_full_history, file, backup,
                               pc, ret, wbuf, uploads, request, op, snap, saved_ok, stored>>
          /\ DisplayCleared(s) =>
                /\ UNCHANGED <<messages, history_loaded, authenticated, openai_key, file,
                               backup, pc, ret, wbuf, uploads, request, op, snap,
                               saved_ok, stored>>
                /\ Len(Shown(s)') <= 10
                /\ Len(Shown(s)') = (IF Len(messages[s]) > 10 THEN 10 ELSE Len(messages[s]))
                /\ Shown(s)' = SubSeq(messages[s], Len(messages[s]) - Len(Shown(s)') + 1,
                                      Len(messages[s]))]_vars

C20_Witness ==
    \E s \in Single :
        /\ history_loaded[s] /\ pc[s] = "idle"
        /\ ~show_full_history[s]
        /\ ~authenticated[s] /\ openai_key[s] = None
        /\ Len(messages[s]) > 10
        /\ Len(Shown(s)) = 10
        /\ Persisted = messages[s]
====
